---- MODULE Spec2Model ----
(***************************************************************************)
(* Model of src/index.js: the React Native environment installer.          *)
(* One run of the script is a linear pipeline of external command          *)
(* invocations (execSync), existence probes (checkCommand), one            *)
(* interactive prompt (rl.question) and console output.  Every external    *)
(* command either returns or throws; which one is the environment's        *)
(* choice.                                                                 *)
(***************************************************************************)
EXTENDS Integers, Sequences, FiniteSets, TLC

VARIABLES platform, pc, calls, out, answer, exitCode, rlOpen, error

vars == <<platform, pc, calls, out, answer, exitCode, rlOpen, error>>

(* ---------- bounds ---------- *)
MaxAnsLen == 3

(* ---------- inputs ---------- *)
\* process.platform values: the three the script recognizes and two others
Platforms == {"darwin", "linux", "win32", "freebsd", "sunos"}

\* characters a line typed at the prompt is built from
Chars == {"y", "Y", "n", "e", "s", " "}

RECURSIVE SeqsUpTo(_)
SeqsUpTo(n) ==
  IF n = 0 THEN {<<>>}
  ELSE LET S == SeqsUpTo(n - 1)
       IN S \cup {Append(s, c) : s \in {t \in S : Len(t) = n - 1}, c \in Chars}

Answers == SeqsUpTo(MaxAnsLen)

NoAnswer == <<"<none>">>
NoError == "<none>"

(* ---------- external commands ---------- *)
NvmBootstrapCmd == "curl nvm install.sh | bash"
NvmInstallCmd == "source ~/.bashrc && nvm install --lts"
NpmInstallCmd == "npm install -g react-native-cli"
BrewBootstrapCmd == "/bin/bash -c curl Homebrew install.sh"
BrewWatchmanCmd == "brew install watchman"
BrewJavaCmd == "brew install adoptopenjdk11"
OpenCmd == "open https://developer.android.com/studio"
AptUpdateCmd == "sudo apt-get update"
AptJavaCmd == "sudo apt-get install -y openjdk-11-jdk"
AptAdbCmd == "sudo apt-get install -y android-tools-adb android-tools-fastboot"
XdgOpenCmd == "xdg-open https://developer.android.com/studio"
ChocoBootstrapCmd == "powershell iex chocolatey install.ps1"
ChocoJavaCmd == "choco install -y openjdk11"
StartCmd == "start https://developer.android.com/studio"
QuestionCall == "rl.question"

\* the command line a probe runs
VersionCmd(command) == command \o " --version"

\* one entry of the call history
Call(kind, cmd, ok) == [kind |-> kind, cmd |-> cmd, ok |-> ok]

(* ---------- console output ---------- *)
printStep(message) == <<"STEP", message>>
printSuccess(message) == <<"SUCCESS", message>>
printError(message) == <<"ERROR", message>>
printWarning(message) == <<"WARNING", message>>
consoleLog(message) == <<"LOG", message>>

CompletedMsg == printSuccess("React Native environment setup completed successfully!")
printNextSteps == <<consoleLog("Next Steps")>>


\* variant: the answer is compared without case normalization
toLowerCase_Identity(s) == s

\* String.prototype.toLowerCase over the prompt alphabet
LowerChar(c) == IF c = "Y" THEN "y" ELSE c
toLowerCase(s) == [i \in 1..Len(s) |-> LowerChar(s[i])]

\* checkCommand: execSync(`${command} --version`) inside try/catch
checkCommand(succeeds) == IF succeeds THEN TRUE ELSE FALSE

Init ==
  /\ platform \in Platforms
  /\ pc = "start"
  /\ calls = <<>>
  /\ out = <<>>
  /\ answer = NoAnswer
  /\ exitCode = 0
  /\ rlOpen = TRUE
  /\ error = NoError

\* process.exit(code) after printing msgs
Exit(msgs, code) ==
  /\ out' = out \o msgs
  /\ exitCode' = code
  /\ pc' = "done"

\* execSync(cmd) outside a probe: returns and control moves to next, or throws
\* into the try block of execute
ExecSync(cmd, ok, before, after, next) ==
  /\ calls' = Append(calls, Call("exec", cmd, ok))
  /\ IF ok
       THEN /\ out' = out \o before \o after
            /\ pc' = next
            /\ error' = error
       ELSE /\ out' = out \o before
            /\ pc' = "catch"
            /\ error' = cmd

Execute ==
  /\ pc = "start"
  /\ out' = out \o <<consoleLog("React Native Environment Setup"),
                     consoleLog("Detected platform")>>
  /\ pc' = "checkPrerequisites"
  /\ UNCHANGED <<platform, calls, answer, exitCode, rlOpen, error>>


\* variant: the warning is printed but process.exit(1) is missing
CheckPrerequisites_NoExit ==
  /\ pc = "checkPrerequisites"
  /\ \E ok \in BOOLEAN :
       /\ calls' = Append(calls, Call("probe", VersionCmd("git"), ok))
       /\ out' = out \o (IF ~checkCommand(ok)
                           THEN <<printStep("Checking prerequisites..."),
                                  printWarning("Git is not installed."),
                                  printSuccess("Prerequisites check complete.")>>
                           ELSE <<printStep("Checking prerequisites..."),
                                  printSuccess("Prerequisites check complete.")>>)
  /\ pc' = "checkNodeJS"
  /\ UNCHANGED <<platform, answer, exitCode, rlOpen, error>>

\* variant: a missing git is thrown as an error instead of a hard exit
CheckPrerequisites_Throws ==
  /\ pc = "checkPrerequisites"
  /\ \E ok \in BOOLEAN :
       /\ calls' = Append(calls, Call("probe", VersionCmd("git"), ok))
       /\ IF ~checkCommand(ok)
            THEN /\ out' = out \o <<printStep("Checking prerequisites..."),
                                    printWarning("Git is not installed.")>>
                 /\ pc' = "catch"
                 /\ error' = "Git is not installed."
            ELSE /\ out' = out \o <<printStep("Checking prerequisites..."),
                                    printSuccess("Prerequisites check complete.")>>
                 /\ pc' = "checkNodeJS"
                 /\ error' = error
  /\ UNCHANGED <<platform, answer, exitCode, rlOpen>>

CheckPrerequisites ==
  /\ pc = "checkPrerequisites"
  /\ \E ok \in BOOLEAN :
       /\ calls' = Append(calls, Call("probe", VersionCmd("git"), ok))
       /\ IF ~checkCommand(ok)
            THEN Exit(<<printStep("Checking prerequisites..."),
                        printWarning("Git is not installed.")>>, 1)
            ELSE /\ out' = out \o <<printStep("Checking prerequisites..."),
                                    printSuccess("Prerequisites check complete.")>>
                 /\ pc' = "checkNodeJS"
                 /\ exitCode' = exitCode
  /\ UNCHANGED <<platform, answer, rlOpen, error>>


\* variant: the win32 test is missing, every platform takes the nvm path
CheckNodeJS_NoWin32Check ==
  /\ pc = "checkNodeJS"
  /\ \E ok \in BOOLEAN :
       /\ calls' = Append(calls, Call("probe", VersionCmd("node"), ok))
       /\ IF ~checkCommand(ok)
            THEN /\ out' = out \o <<printStep("Checking Node.js installation..."),
                                    printStep("Node.js not found. Installing using NVM...")>>
                 /\ pc' = "nvmBootstrap"
            ELSE /\ out' = out \o <<printStep("Checking Node.js installation..."),
                                    printSuccess("Node.js is already installed.")>>
                 /\ pc' = "installReactNativeCLI"
  /\ UNCHANGED <<platform, answer, exitCode, rlOpen, error>>

CheckNodeJS ==
  /\ pc = "checkNodeJS"
  /\ \E ok \in BOOLEAN :
       /\ calls' = Append(calls, Call("probe", VersionCmd("node"), ok))
       /\ IF ~checkCommand(ok)
            THEN IF platform = "win32"
                   THEN Exit(<<printStep("Checking Node.js installation..."),
                               printStep("Node.js not found. Installing using NVM..."),
                               printWarning("Please install Node.js from https://nodejs.org/")>>, 1)
                   ELSE /\ out' = out \o <<printStep("Checking Node.js installation..."),
                                           printStep("Node.js not found. Installing using NVM...")>>
                        /\ pc' = "nvmBootstrap"
                        /\ exitCode' = exitCode
            ELSE /\ out' = out \o <<printStep("Checking Node.js installation..."),
                                    printSuccess("Node.js is already installed.")>>
                 /\ pc' = "installReactNativeCLI"
                 /\ exitCode' = exitCode
  /\ UNCHANGED <<platform, answer, rlOpen, error>>


\* variant: the nvm install line is missing after the bootstrap
NvmBootstrap_SkipsInstall ==
  /\ pc = "nvmBootstrap"
  /\ \E ok \in BOOLEAN : ExecSync(NvmBootstrapCmd, ok, <<>>, <<>>, "installReactNativeCLI")
  /\ UNCHANGED <<platform, answer, exitCode, rlOpen>>

NvmBootstrap ==
  /\ pc = "nvmBootstrap"
  /\ \E ok \in BOOLEAN : ExecSync(NvmBootstrapCmd, ok, <<>>, <<>>, "nvmInstall")
  /\ UNCHANGED <<platform, answer, exitCode, rlOpen>>

NvmInstall ==
  /\ pc = "nvmInstall"
  /\ \E ok \in BOOLEAN : ExecSync(NvmInstallCmd, ok, <<>>, <<>>, "installReactNativeCLI")
  /\ UNCHANGED <<platform, answer, exitCode, rlOpen>>


\* variant: the CLI is installed only when node had to be installed first
InstallReactNativeCLI_OnlyAfterNvm ==
  /\ pc = "installReactNativeCLI"
  /\ IF calls[2].ok
       THEN /\ pc' = "platformBranch"
            /\ UNCHANGED <<calls, out, error>>
       ELSE \E ok \in BOOLEAN :
              ExecSync(NpmInstallCmd, ok,
                       <<printStep("Installing React Native CLI...")>>,
                       <<printSuccess("React Native CLI installed successfully.")>>,
                       "platformBranch")
  /\ UNCHANGED <<platform, answer, exitCode, rlOpen>>

InstallReactNativeCLI ==
  /\ pc = "installReactNativeCLI"
  /\ \E ok \in BOOLEAN :
       ExecSync(NpmInstallCmd, ok,
                <<printStep("Installing React Native CLI...")>>,
                <<printSuccess("React Native CLI installed successfully.")>>,
                "platformBranch")
  /\ UNCHANGED <<platform, answer, exitCode, rlOpen>>


\* variant: the linux tag is dispatched to the macOS procedure
PlatformBranch_LinuxToMac ==
  /\ pc = "platformBranch"
  /\ pc' = IF platform = "darwin" THEN "setupMacOS"
           ELSE IF platform = "linux" THEN "setupMacOS"
           ELSE IF platform = "win32" THEN "setupWindows"
           ELSE "completed"
  /\ UNCHANGED <<platform, calls, out, answer, exitCode, rlOpen, error>>

\* variant: the last branch is a plain else, any other tag gets the Linux procedure
PlatformBranch_ElseLinux ==
  /\ pc = "platformBranch"
  /\ pc' = IF platform = "darwin" THEN "setupMacOS"
           ELSE IF platform = "win32" THEN "setupWindows"
           ELSE "setupLinux"
  /\ UNCHANGED <<platform, calls, out, answer, exitCode, rlOpen, error>>

PlatformBranch ==
  /\ pc = "platformBranch"
  /\ pc' = IF platform = "darwin" THEN "setupMacOS"
           ELSE IF platform = "linux" THEN "setupLinux"
           ELSE IF platform = "win32" THEN "setupWindows"
           ELSE "completed"
  /\ UNCHANGED <<platform, calls, out, answer, exitCode, rlOpen, error>>

\* the continuation of `await this.question(...)` once a line has been read:
\* the optional browser launch and the closing success message of a procedure
AfterAnswer(a, ok, launchCmd, doneMsg) ==
  /\ answer' = a
  /\ IF toLowerCase(a) = <<"y">>
       THEN ExecSync(launchCmd, ok, <<>>,
                     <<printWarning("Please complete Android Studio installation and setup Android SDK manually."),
                       printSuccess(doneMsg)>>,
                     "completed")
       ELSE /\ out' = Append(out, printSuccess(doneMsg))
            /\ pc' = "completed"
            /\ UNCHANGED <<calls, error>>

\* question(query): rl.question is called and the pipeline suspends
question(next) ==
  /\ calls' = Append(calls, Call("prompt", QuestionCall, TRUE))
  /\ pc' = next
  /\ UNCHANGED <<platform, out, answer, exitCode, rlOpen, error>>

(* ---------- setupMacOS ---------- *)
\* variant: the result of the brew probe is ignored, Homebrew is always bootstrapped
SetupMacOS_AlwaysBootstraps ==
  /\ pc = "setupMacOS"
  /\ \E ok \in BOOLEAN :
       calls' = Append(calls, Call("probe", VersionCmd("brew"), ok))
  /\ out' = out \o <<printStep("Setting up macOS development environment..."),
                     printStep("Installing Homebrew...")>>
  /\ pc' = "macBrewBootstrap"
  /\ UNCHANGED <<platform, answer, exitCode, rlOpen, error>>

SetupMacOS ==
  /\ pc = "setupMacOS"
  /\ \E ok \in BOOLEAN :
       /\ calls' = Append(calls, Call("probe", VersionCmd("brew"), ok))
       /\ IF ~checkCommand(ok)
            THEN /\ out' = out \o <<printStep("Setting up macOS development environment..."),
                                    printStep("Installing Homebrew...")>>
                 /\ pc' = "macBrewBootstrap"
            ELSE /\ out' = Append(out, printStep("Setting up macOS development environment..."))
                 /\ pc' = "macWatchman"
  /\ UNCHANGED <<platform, answer, exitCode, rlOpen, error>>

MacBrewBootstrap ==
  /\ pc = "macBrewBootstrap"
  /\ \E ok \in BOOLEAN : ExecSync(BrewBootstrapCmd, ok, <<>>, <<>>, "macWatchman")
  /\ UNCHANGED <<platform, answer, exitCode, rlOpen>>

MacWatchman ==
  /\ pc = "macWatchman"
  /\ \E ok \in BOOLEAN :
       ExecSync(BrewWatchmanCmd, ok, <<printStep("Installing watchman...")>>, <<>>, "macXcode")
  /\ UNCHANGED <<platform, answer, exitCode, rlOpen>>

\* variant: a missing Xcode is treated like a missing git, with a hard exit
MacXcode_ExitsWhenAbsent ==
  /\ pc = "macXcode"
  /\ \E ok \in BOOLEAN :
       /\ calls' = Append(calls, Call("probe", VersionCmd("xcode-select"), ok))
       /\ IF ~checkCommand(ok)
            THEN Exit(<<printWarning("Xcode is not installed. Please install Xcode from the App Store.")>>, 1)
            ELSE /\ out' = out
                 /\ pc' = "macJava"
                 /\ exitCode' = exitCode
  /\ UNCHANGED <<platform, answer, rlOpen, error>>

MacXcode ==
  /\ pc = "macXcode"
  /\ \E ok \in BOOLEAN :
       /\ calls' = Append(calls, Call("probe", VersionCmd("xcode-select"), ok))
       /\ out' = IF ~checkCommand(ok)
                   THEN Append(out, printWarning("Xcode is not installed. Please install Xcode from the App Store."))
                   ELSE out
  /\ pc' = "macJava"
  /\ UNCHANGED <<platform, answer, exitCode, rlOpen, error>>

MacJava ==
  /\ pc = "macJava"
  /\ \E ok \in BOOLEAN :
       ExecSync(BrewJavaCmd, ok, <<printStep("Installing Java Development Kit...")>>, <<>>, "macQuestion")
  /\ UNCHANGED <<platform, answer, exitCode, rlOpen>>

MacQuestion ==
  /\ pc = "macQuestion"
  /\ question("macAwait")

MacAnswer ==
  /\ pc = "macAwait"
  /\ \E a \in Answers, ok \in BOOLEAN :
       AfterAnswer(a, ok, OpenCmd, "macOS development environment setup complete.")
  /\ UNCHANGED <<platform, exitCode, rlOpen>>

(* ---------- setupLinux ---------- *)
SetupLinux ==
  /\ pc = "setupLinux"
  /\ \E ok \in BOOLEAN :
       ExecSync(AptUpdateCmd, ok,
                <<printStep("Setting up Linux development environment..."),
                  printStep("Installing Java Development Kit...")>>,
                <<>>, "linuxJava")
  /\ UNCHANGED <<platform, answer, exitCode, rlOpen>>

LinuxJava ==
  /\ pc = "linuxJava"
  /\ \E ok \in BOOLEAN : ExecSync(AptJavaCmd, ok, <<>>, <<>>, "linuxAdb")
  /\ UNCHANGED <<platform, answer, exitCode, rlOpen>>

\* variant: a failure of the last apt-get install is swallowed and the
\* procedure goes on to the prompt
LinuxAdb_IgnoresFailure ==
  /\ pc = "linuxAdb"
  /\ \E ok \in BOOLEAN :
       calls' = Append(calls, Call("exec", AptAdbCmd, ok))
  /\ out' = Append(out, printStep("Installing additional dependencies..."))
  /\ pc' = "linuxQuestion"
  /\ UNCHANGED <<platform, answer, exitCode, rlOpen, error>>

LinuxAdb ==
  /\ pc = "linuxAdb"
  /\ \E ok \in BOOLEAN :
       ExecSync(AptAdbCmd, ok, <<printStep("Installing additional dependencies...")>>, <<>>,
                "linuxQuestion")
  /\ UNCHANGED <<platform, answer, exitCode, rlOpen>>

LinuxQuestion ==
  /\ pc = "linuxQuestion"
  /\ question("linuxAwait")

LinuxAnswer ==
  /\ pc = "linuxAwait"
  /\ \E a \in Answers, ok \in BOOLEAN :
       AfterAnswer(a, ok, XdgOpenCmd, "Linux development environment setup complete.")
  /\ UNCHANGED <<platform, exitCode, rlOpen>>

(* ---------- setupWindows ---------- *)
SetupWindows ==
  /\ pc = "setupWindows"
  /\ \E ok \in BOOLEAN :
       /\ calls' = Append(calls, Call("probe", VersionCmd("choco"), ok))
       /\ IF ~checkCommand(ok)
            THEN /\ out' = out \o <<printStep("Setting up Windows development environment..."),
                                    printStep("Installing Chocolatey...")>>
                 /\ pc' = "winChocoBootstrap"
            ELSE /\ out' = Append(out, printStep("Setting up Windows development environment..."))
                 /\ pc' = "winJava"
  /\ UNCHANGED <<platform, answer, exitCode, rlOpen, error>>

WinChocoBootstrap ==
  /\ pc = "winChocoBootstrap"
  /\ \E ok \in BOOLEAN : ExecSync(ChocoBootstrapCmd, ok, <<>>, <<>>, "winJava")
  /\ UNCHANGED <<platform, answer, exitCode, rlOpen>>

WinJava ==
  /\ pc = "winJava"
  /\ \E ok \in BOOLEAN :
       ExecSync(ChocoJavaCmd, ok, <<printStep("Installing Java Development Kit...")>>, <<>>,
                "winQuestion")
  /\ UNCHANGED <<platform, answer, exitCode, rlOpen>>

WinQuestion ==
  /\ pc = "winQuestion"
  /\ question("winAwait")

WinAnswer ==
  /\ pc = "winAwait"
  /\ \E a \in Answers, ok \in BOOLEAN :
       AfterAnswer(a, ok, StartCmd, "Windows development environment setup complete.")
  /\ UNCHANGED <<platform, exitCode, rlOpen>>

(* ---------- end of execute ---------- *)
\* the last two statements of the try block; the promise of execute resolves
Completed ==
  /\ pc = "completed"
  /\ out' = Append(out, CompletedMsg) \o printNextSteps
  /\ pc' = "resolved"
  /\ UNCHANGED <<platform, calls, answer, exitCode, rlOpen, error>>


\* variant: the error is printed but the run goes on to the completion output
Catch_NoExit ==
  /\ pc = "catch"
  /\ out' = Append(out, printError("Installation failed: " \o error))
  /\ pc' = "completed"
  /\ UNCHANGED <<platform, calls, answer, exitCode, rlOpen, error>>

\* variant: the catch block exits with code 0
Catch_ExitZero ==
  /\ pc = "catch"
  /\ Exit(<<printError("Installation failed: " \o error)>>, 0)
  /\ UNCHANGED <<platform, calls, answer, rlOpen, error>>

\* variant: the catch block releases the channel before it exits
Catch_ClosesChannel ==
  /\ pc = "catch"
  /\ Exit(<<printError("Installation failed: " \o error)>>, 1)
  /\ rlOpen' = FALSE
  /\ UNCHANGED <<platform, calls, answer, error>>

\* catch (error) { printError(...); process.exit(1); }
Catch ==
  /\ pc = "catch"
  /\ Exit(<<printError("Installation failed: " \o error)>>, 1)
  /\ UNCHANGED <<platform, calls, answer, rlOpen, error>>

\* installer.execute().then(() => rl.close()): the channel is closed and the
\* process ends by itself with the default exit code
MainThen ==
  /\ pc = "resolved"
  /\ rlOpen' = FALSE
  /\ exitCode' = 0
  /\ pc' = "done"
  /\ UNCHANGED <<platform, calls, out, answer, error>>

Next ==
  \/ Execute
  \/ CheckPrerequisites
  \/ CheckNodeJS
  \/ NvmBootstrap
  \/ NvmInstall
  \/ InstallReactNativeCLI
  \/ PlatformBranch
  \/ SetupMacOS
  \/ MacBrewBootstrap
  \/ MacWatchman
  \/ MacXcode
  \/ MacJava
  \/ MacQuestion
  \/ MacAnswer
  \/ SetupLinux
  \/ LinuxJava
  \/ LinuxAdb
  \/ LinuxQuestion
  \/ LinuxAnswer
  \/ SetupWindows
  \/ WinChocoBootstrap
  \/ WinJava
  \/ WinQuestion
  \/ WinAnswer
  \/ Completed
  \/ Catch
  \/ MainThen

Spec == Init /\ [][Next]_vars

\* every external command returns and the prompt is answered: a step that is
\* possible is eventually taken
FairSpec == Spec /\ WF_vars(Next)

(* ======================================================================== *)
(* Properties                                                               *)
(* ======================================================================== *)
Idx == 1..Len(calls)
Invoked(c) == \E i \in Idx : calls[i].cmd = c
Count(c) == Cardinality({i \in Idx : calls[i].cmd = c})
Printed(m) == \E i \in 1..Len(out) : out[i] = m
PrintedKind(k) == \E i \in 1..Len(out) : out[i][1] = k

GitProbe(ok) == Call("probe", "git --version", ok)
NodeProbe(ok) == Call("probe", "node --version", ok)
GitAbsent == \E i \in Idx : calls[i] = GitProbe(FALSE)
GitPresent == \E i \in Idx : calls[i] = GitProbe(TRUE)
NodeAbsent == \E i \in Idx : calls[i] = NodeProbe(FALSE)
NodePresent == \E i \in Idx : calls[i] = NodeProbe(TRUE)

\* a non-probe external command threw
Raised == \E i \in Idx : calls[i].kind = "exec" /\ ~calls[i].ok
\* one of the two process.exit(1) calls outside the catch block was taken
HardExit == GitAbsent \/ (NodeAbsent /\ platform = "win32")
NextStepsPrinted == \A i \in 1..Len(printNextSteps) : Printed(printNextSteps[i])
Terminated == pc = "done"

RuntimeCmds == {"git --version", "node --version", NvmBootstrapCmd, NvmInstallCmd, NpmInstallCmd}
MacCmds == {"brew --version", BrewBootstrapCmd, BrewWatchmanCmd, "xcode-select --version",
            BrewJavaCmd, OpenCmd}
LinuxCmds == {AptUpdateCmd, AptJavaCmd, AptAdbCmd, XdgOpenCmd}
WinCmds == {"choco --version", ChocoBootstrapCmd, ChocoJavaCmd, StartCmd}
PlatformCmds == MacCmds \cup LinuxCmds \cup WinCmds
LaunchCmds == {OpenCmd, XdgOpenCmd, StartCmd}
Recognized == {"darwin", "linux", "win32"}

\* C1: once the git probe has reported absent the run is over with exit code
\* 1 and the git probe is the only thing that was ever invoked: no node
\* probe, no nvm command, no npm install, no platform command, no prompt.
C1_GitAbsentStopsEverything ==
  GitAbsent => /\ Terminated
               /\ exitCode = 1
               /\ calls = <<GitProbe(FALSE)>>

C1_Witness == GitAbsent /\ Terminated /\ platform = "darwin"

\* C2: on a recognized platform tag every platform-setup command that is
\* invoked belongs to that tag's own procedure, never to another one.
C2_OnlyOwnPlatformCommands ==
  \A i \in Idx :
    /\ platform = "darwin" => calls[i].cmd \notin LinuxCmds \cup WinCmds
    /\ platform = "linux" => calls[i].cmd \notin MacCmds \cup WinCmds
    /\ platform = "win32" => calls[i].cmd \notin MacCmds \cup LinuxCmds
    /\ calls[i].cmd \in RuntimeCmds \cup PlatformCmds \cup {QuestionCall}

C2_Witness == platform = "linux" /\ Terminated /\ Invoked(XdgOpenCmd) /\ Invoked(AptAdbCmd)

\* C3: when a non-probe command throws it is the last thing the run invokes,
\* nothing is invoked twice, the completion message and the next steps are
\* never printed, and the run ends with the error message and exit code 1.
C3_FailFast ==
  /\ \A i, j \in Idx : i # j => calls[i].cmd # calls[j].cmd
  /\ Raised =>
       /\ calls[Len(calls)].kind = "exec" /\ ~calls[Len(calls)].ok
       /\ pc \in {"catch", "done"}
       /\ ~Printed(CompletedMsg)
       /\ \A k \in 1..Len(printNextSteps) : ~Printed(printNextSteps[k])
       /\ Terminated => /\ exitCode = 1
                        /\ out[Len(out)] = printError("Installation failed: " \o calls[Len(calls)].cmd)

C3_Witness == Raised /\ Terminated /\ calls[Len(calls)].cmd = StartCmd

\* C4: once the prompt has been answered, the browser launch of the
\* platform's procedure has been invoked exactly when the answer is "y" or
\* "Y"; with any other answer nothing was launched, nothing threw, and the
\* run finishes with the success message and exit code 0.
C4_LaunchIffYes ==
  answer # NoAnswer =>
    /\ (\E i \in Idx : calls[i].cmd \in LaunchCmds) <=> answer \in {<<"y">>, <<"Y">>}
    /\ Invoked(OpenCmd) => platform = "darwin"
    /\ Invoked(XdgOpenCmd) => platform = "linux"
    /\ Invoked(StartCmd) => platform = "win32"
    /\ answer \notin {<<"y">>, <<"Y">>} =>
         /\ ~Raised
         /\ pc \in {"completed", "resolved", "done"}
         /\ Terminated => exitCode = 0 /\ Printed(CompletedMsg)

C4_Witness == answer = <<"y", "e", "s">> /\ Terminated /\ exitCode = 0

\* C5: with an unrecognized platform tag no platform command is invoked and
\* no prompt is asked; if git is present and nothing throws, no warning and
\* no error is printed, and from the platform branch the run goes on to
\* print the completion message and the next steps and ends with code 0.
C5_Safe ==
  platform \notin Recognized =>
    /\ \A i \in Idx : calls[i].cmd \in RuntimeCmds
    /\ (~GitAbsent /\ ~Raised) => ~PrintedKind("WARNING") /\ ~PrintedKind("ERROR")
    /\ (Terminated /\ ~GitAbsent /\ ~Raised) =>
         exitCode = 0 /\ Printed(CompletedMsg) /\ NextStepsPrinted

C5_UnrecognizedPlatformCompletes ==
  /\ []C5_Safe
  /\ (platform \notin Recognized /\ pc = "platformBranch")
       ~> (Terminated /\ exitCode = 0 /\ Printed(CompletedMsg) /\ NextStepsPrinted)

C5_Witness == platform = "freebsd" /\ Terminated /\ exitCode = 0 /\ NodeAbsent

\* C6: on win32, once the node probe has reported absent the run is over
\* with exit code 1 and only the two probes were ever invoked.
C6_Win32NodeAbsentExits ==
  (platform = "win32" /\ NodeAbsent) =>
    /\ Terminated
    /\ exitCode = 1
    /\ calls = <<GitProbe(TRUE), NodeProbe(FALSE)>>

C6_Witness == platform = "win32" /\ NodeAbsent /\ Terminated

\* C7 as stated: node present means no nvm command; node absent on a
\* non-win32 tag means that the finished run invoked both nvm commands,
\* bootstrap first, both before the npm install.
C7_Original ==
  /\ NodePresent => ~Invoked(NvmBootstrapCmd) /\ ~Invoked(NvmInstallCmd)
  /\ (Terminated /\ NodeAbsent /\ platform # "win32") =>
       /\ Invoked(NvmBootstrapCmd) /\ Invoked(NvmInstallCmd)
       /\ \A i, j \in Idx :
            (calls[i].cmd = NvmBootstrapCmd /\ calls[j].cmd = NvmInstallCmd) => i < j
       /\ \A i, j \in Idx :
            (calls[i].cmd \in {NvmBootstrapCmd, NvmInstallCmd} /\ calls[j].cmd = NpmInstallCmd)
              => i < j

\* C7 amended: node present means no nvm command, on any tag.  Node absent
\* on a non-win32 tag: the bootstrap is what the run invokes next; nvm
\* install is invoked exactly when the bootstrap returned without throwing,
\* directly after it; the npm install comes only after both have returned.
C7_NvmOnlyWhenNodeAbsent ==
  /\ NodePresent => ~Invoked(NvmBootstrapCmd) /\ ~Invoked(NvmInstallCmd)
  /\ (NodeAbsent /\ platform # "win32" /\ pc # "nvmBootstrap") =>
       /\ calls[3].kind = "exec" /\ calls[3].cmd = NvmBootstrapCmd
       /\ (calls[3].ok /\ pc # "nvmInstall") <=> Invoked(NvmInstallCmd)
       /\ Invoked(NvmInstallCmd) => calls[4].cmd = NvmInstallCmd
       /\ \A j \in Idx : calls[j].cmd = NpmInstallCmd =>
            j = 5 /\ calls[3].ok /\ calls[4].ok

C7_Witness ==
  /\ NodeAbsent /\ platform = "linux" /\ Terminated
  /\ Invoked(NvmBootstrapCmd) /\ Invoked(NvmInstallCmd) /\ Invoked(NpmInstallCmd)

\* C8: after either hard exit the run is over with exit code 1, the last
\* thing printed is a warning and the "Installation failed" error was never
\* printed; a finished run printed that error exactly when a command threw.
C8_HardExitBypassesCatch ==
  /\ HardExit => /\ Terminated
                 /\ exitCode = 1
                 /\ out[Len(out)][1] = "WARNING"
                 /\ ~PrintedKind("ERROR")
  /\ Terminated => (PrintedKind("ERROR") <=> Raised)
  /\ ~Terminated => ~PrintedKind("ERROR")

C8_Witness == platform = "win32" /\ NodeAbsent /\ Terminated /\ PrintedKind("WARNING")

\* C9: every run terminates; a terminated run has exit code 0 or 1, it has 0
\* exactly when no hard exit was taken and no command threw, and then the
\* completion message and the next steps are the last things it printed.
C9_Terminal ==
  Terminated =>
    /\ exitCode \in {0, 1}
    /\ exitCode = 0 <=> (~HardExit /\ ~Raised)
    /\ exitCode = 0 =>
         /\ Len(out) >= 1 + Len(printNextSteps)
         /\ out[Len(out) - Len(printNextSteps)] = CompletedMsg
         /\ \A k \in 1..Len(printNextSteps) :
              out[Len(out) - Len(printNextSteps) + k] = printNextSteps[k]

C9_TerminatesInOneOfTwoStates ==
  /\ <>Terminated
  /\ []C9_Terminal
  /\ [][Terminated => UNCHANGED vars]_vars

C9_Witness == Terminated /\ exitCode = 0 /\ platform = "darwin" /\ Invoked(OpenCmd)

\* C10: the git probe is the first call and the node probe the second; no
\* probe for the CLI tool exists; once the runtime stage is behind (node
\* present, or nvm install returned) and the CLI stage has run, the npm
\* install has been invoked exactly once, directly after the runtime stage
\* and before every platform command and the prompt.
PastRuntimeStage ==
  /\ GitPresent
  /\ NodePresent \/ (\E i \in Idx : calls[i] = Call("exec", NvmInstallCmd, TRUE))
  /\ pc # "installReactNativeCLI"

C10_CliInstalledOnceInOrder ==
  /\ Count(NpmInstallCmd) <= 1
  /\ \A i \in Idx : calls[i].kind = "probe" =>
       calls[i].cmd \in {"git --version", "node --version", "brew --version",
                         "xcode-select --version", "choco --version"}
  /\ Len(calls) >= 1 => calls[1].cmd = "git --version"
  /\ Len(calls) >= 2 => calls[2].cmd = "node --version"
  /\ PastRuntimeStage =>
       /\ Count(NpmInstallCmd) = 1
       /\ NodePresent => calls[3].cmd = NpmInstallCmd
       /\ NodeAbsent => calls[5].cmd = NpmInstallCmd
  /\ \A i, j \in Idx :
       (calls[i].cmd \in PlatformCmds \cup {QuestionCall} /\ calls[j].cmd \in RuntimeCmds)
         => j < i

C10_Witness ==
  /\ platform = "darwin" /\ NodeAbsent /\ Invoked(NpmInstallCmd)
  /\ Invoked(BrewJavaCmd) /\ Terminated

BrewProbe(ok) == Call("probe", "brew --version", ok)
ChocoProbe(ok) == Call("probe", "choco --version", ok)
XcodeProbe(ok) == Call("probe", "xcode-select --version", ok)
Has(c) == \E i \in Idx : calls[i] = c
IndexOf(c) == CHOOSE i \in Idx : calls[i].cmd = c

\* the bootstrap of a package manager and the first use of it, given the
\* result of its probe: Original is the claim as stated, Amended as amended
BootstrapOriginal(absent, present, bootstrapCmd, firstUse, bootstrapPc) ==
  /\ Invoked(bootstrapCmd) => absent
  /\ (absent /\ pc # bootstrapPc) => Invoked(bootstrapCmd)
  /\ (Invoked(bootstrapCmd) /\ Invoked(firstUse)) => IndexOf(bootstrapCmd) < IndexOf(firstUse)
  /\ (Terminated /\ (absent \/ present)) => Invoked(firstUse)

BootstrapAmended(absent, present, bootstrapCmd, firstUse, bootstrapPc, firstUsePc) ==
  /\ Invoked(bootstrapCmd) => absent
  /\ (absent /\ pc # bootstrapPc) => Invoked(bootstrapCmd)
  /\ (Invoked(bootstrapCmd) /\ Invoked(firstUse)) => IndexOf(bootstrapCmd) < IndexOf(firstUse)
  /\ Invoked(firstUse) <=>
       /\ pc # firstUsePc
       /\ present \/ Has(Call("exec", bootstrapCmd, TRUE))

\* C11 as stated: the bootstrap script is invoked exactly when the probe
\* reported absent, before the first command of the package manager, and a
\* finished run that probed the package manager has invoked that command
\* ('brew install watchman', 'choco install') whatever the probe said.
C11_Original ==
  /\ BootstrapOriginal(Has(BrewProbe(FALSE)), Has(BrewProbe(TRUE)),
                       BrewBootstrapCmd, BrewWatchmanCmd, "macBrewBootstrap")
  /\ BootstrapOriginal(Has(ChocoProbe(FALSE)), Has(ChocoProbe(TRUE)),
                       ChocoBootstrapCmd, ChocoJavaCmd, "winChocoBootstrap")

\* C11 amended: the bootstrap script is invoked exactly when the probe
\* reported absent and before the first command of the package manager;
\* that command is invoked exactly when the probe reported present or the
\* bootstrap returned without throwing.
C11_BootstrapIffAbsent ==
  /\ BootstrapAmended(Has(BrewProbe(FALSE)), Has(BrewProbe(TRUE)),
                      BrewBootstrapCmd, BrewWatchmanCmd, "macBrewBootstrap", "macWatchman")
  /\ BootstrapAmended(Has(ChocoProbe(FALSE)), Has(ChocoProbe(TRUE)),
                      ChocoBootstrapCmd, ChocoJavaCmd, "winChocoBootstrap", "winJava")

C11_Witness ==
  /\ platform = "darwin" /\ Has(BrewProbe(FALSE)) /\ Terminated
  /\ Has(Call("exec", BrewBootstrapCmd, TRUE)) /\ Invoked(BrewWatchmanCmd)

XcodeProbed == Has(XcodeProbe(TRUE)) \/ Has(XcodeProbe(FALSE))
XcodeWarning == printWarning("Xcode is not installed. Please install Xcode from the App Store.")
\* the calls made after the xcode-select probe
AfterXcode == SubSeq(calls, IndexOf("xcode-select --version") + 1, Len(calls))

\* C12: the xcode-select probe only decides whether the warning is printed.
\* Whatever it reports, the run goes on and what follows is the same, with
\* nothing invoked in between: the Java install, then (if
\* that returned) the prompt, then (if the answer is "y"/"Y") the browser
\* launch; the exit code of the finished run is 1 exactly when one of these
\* commands threw, and 0 otherwise.
C12_XcodeProbeWarnsOnly ==
  /\ Printed(XcodeWarning) <=> Has(XcodeProbe(FALSE))
  /\ XcodeProbed =>
       /\ pc \in {"macJava", "macQuestion", "macAwait", "completed", "resolved", "catch", "done"}
       /\ pc = "macJava" <=> AfterXcode = <<>>
       /\ Len(AfterXcode) >= 1 => AfterXcode[1].cmd = BrewJavaCmd
       /\ Len(AfterXcode) >= 2 => AfterXcode[1].ok /\ AfterXcode[2].cmd = QuestionCall
       /\ Len(AfterXcode) >= 3 => AfterXcode[3].cmd = OpenCmd /\ answer \in {<<"y">>, <<"Y">>}
       /\ Len(AfterXcode) <= 3
       /\ (pc = "macQuestion") <=> (Len(AfterXcode) = 1 /\ AfterXcode[1].ok)
       /\ (pc = "macAwait") <=> (Len(AfterXcode) = 2 /\ answer = NoAnswer)
       /\ (answer \in {<<"y">>, <<"Y">>}) => Len(AfterXcode) = 3
       /\ Terminated =>
            exitCode = IF \E k \in 1..Len(AfterXcode) : ~AfterXcode[k].ok THEN 1 ELSE 0

C12_Witness ==
  /\ Has(XcodeProbe(FALSE)) /\ Terminated /\ exitCode = 0
  /\ Invoked(OpenCmd) /\ Printed(XcodeWarning)

\* C13: the channel is open in every state but the final one of a
\* successful run: it is closed exactly when the run has ended with exit
\* code 0, the completion message and the next steps are then the last
\* output, and the only step that changes it is the single closing step
\* taken after execute has resolved.
C13_ClosedState ==
  /\ ~rlOpen <=> (Terminated /\ exitCode = 0)
  /\ ~rlOpen =>
       /\ Len(out) >= 1 + Len(printNextSteps)
       /\ out[Len(out) - Len(printNextSteps)] = CompletedMsg
       /\ SubSeq(out, Len(out) - Len(printNextSteps) + 1, Len(out)) = printNextSteps
  /\ (Terminated /\ exitCode = 1) => rlOpen

C13_ChannelClosedOnlyAtEnd ==
  /\ []C13_ClosedState
  /\ [][rlOpen' # rlOpen => (rlOpen /\ pc = "resolved" /\ pc' = "done")]_vars

C13_Witness == Terminated /\ ~rlOpen /\ exitCode = 0 /\ Printed(CompletedMsg)

\* C14: the prompt is asked at most once; when it has been asked the
\* platform tag is recognized, no hard exit was taken, every command
\* invoked before it returned without throwing, and the package-install
\* commands of the platform's procedure are all among them; the run waits
\* (no step but the arrival of the answer is possible) exactly when the
\* prompt is the last call and no answer has been captured.
InstallCmdsOf(p) ==
  IF p = "darwin" THEN {BrewWatchmanCmd, BrewJavaCmd}
  ELSE IF p = "linux" THEN {AptUpdateCmd, AptJavaCmd, AptAdbCmd}
  ELSE IF p = "win32" THEN {ChocoJavaCmd}
  ELSE {}

Suspended == pc \in {"macAwait", "linuxAwait", "winAwait"}

C14_PromptOnceAfterInstalls ==
  /\ Count(QuestionCall) <= 1
  /\ Invoked(QuestionCall) =>
       /\ platform \in Recognized
       /\ ~HardExit
       /\ \A i \in 1..(IndexOf(QuestionCall) - 1) : calls[i].ok \/ calls[i].kind = "probe"
       /\ \A c \in InstallCmdsOf(platform) :
            \E i \in 1..(IndexOf(QuestionCall) - 1) : calls[i] = Call("exec", c, TRUE)
       /\ Has(BrewProbe(FALSE)) => Has(Call("exec", BrewBootstrapCmd, TRUE))
       /\ Has(ChocoProbe(FALSE)) => Has(Call("exec", ChocoBootstrapCmd, TRUE))
  /\ Suspended <=> (Invoked(QuestionCall) /\ calls[Len(calls)].cmd = QuestionCall
                     /\ answer = NoAnswer)
  /\ answer # NoAnswer => Invoked(QuestionCall)

C14_Witness ==
  /\ platform = "linux" /\ Terminated /\ Invoked(QuestionCall)
  /\ answer = <<"n">> /\ exitCode = 0

====
